---- MODULE Spec2Model ----
(***************************************************************************)
(* Meeting Maestro security core: access control (lib/access-control.ts), *)
(* audit log (lib/audit.ts), envelope encryption (lib/encryption.ts),     *)
(* data retention (lib/data-retention.ts) and GDPR user-data management   *)
(* (lib/user-data-management.ts, app/api/user-data/delete/route.ts).      *)
(*                                                                         *)
(* The database tables of supabase/migrations/001_initial_schema.sql are  *)
(* state the services could read; the services as written never query     *)
(* them, which the model keeps: the tables are variables no action reads  *)
(* unless the code does.                                                   *)
(***************************************************************************)
EXTENDS Integers, Sequences, FiniteSets, TLC

VARIABLES
    users,            \* public.users: userId -> [organization_id, role]
    access_controls,  \* public.access_controls: set of AccessControl rows
    now,              \* wall clock, in hours
    auditLog,         \* entries written by AuditLogger.log, oldest first
    ledgerCalls,      \* completed grantPermission / revokePermission calls
    lastGrant,        \* last completed grantPermission: arguments, time, call number
    lastCheck,        \* last checkPermission: arguments, time, calls seen, result
    issued,           \* envelopes returned by encryptData / encryptFile, with
                      \* what was encrypted, for whom, under which data key,
                      \* the wrapped data key and the process that wrapped it
    lastDecrypt,      \* last decryptData / decryptFile call with its result
    request,          \* a DataDeletionRequest object held by a caller
    issuedCodes,      \* confirmation codes deleteUserData returned, per user
    lastDeleteCall,   \* last deleteUserData call with its outcome
    deletionLog,      \* deletion steps that ran, oldest first
    execCalls,        \* executeDataDeletion calls made so far
    lastExec,         \* last executeDataDeletion call with its outcome
    lastResponse,     \* last response of the /api/user-data/delete route
    audit_logs,       \* public.audit_logs: rows already in the table
    lastValidate,     \* last validateDataExportRequest call with its result
    lastExport,       \* last exportUserData call with its outcome
    lastPost,         \* last response of POST /api/user-data/export
    env,              \* process.env.MASTER_ENCRYPTION_KEY
    masterKey,        \* EncryptionService.masterKey of the running process
    processes,        \* processes started so far (the running one included)
    lastConstruct,    \* last EncryptionService construction with its outcome
    organizations,    \* organizationId -> compliance mode
    meetings,         \* public.meetings rows: id, organization, retention_until
    scheduleLog,      \* deletion dates scheduleDataDeletion computed, per resource
    lastSetPolicy,    \* last setRetentionPolicy call with its outcome
    sweepLog,         \* retention sweeps run so far, oldest first
    sweepers,         \* retention sweep calls in flight, per caller
    lastPolicy,       \* last getRetentionPolicy call with its result
    lastVerify,       \* last verifyIntegrity call with its result
    rateLimitStore,   \* middleware/security.ts: rateLimitStore, one entry per client id
    lastSecurity,     \* last applySecurity call with what it did
    retry             \* one withRetry call: position, loop index, invocations of fn, outcome

aclVars == <<ledgerCalls, lastGrant, lastCheck>>
encVars == <<issued, lastDecrypt>>
gdprVars == <<request, issuedCodes, lastDeleteCall, deletionLog, execCalls, lastExec, lastResponse>>
exportVars == <<audit_logs, lastValidate, lastExport, lastPost>>
keyVars == <<env, masterKey, processes, lastConstruct>>
retVars == <<organizations, meetings, scheduleLog, lastSetPolicy, sweepLog>>
opsVars == <<sweepers, lastPolicy, lastVerify, rateLimitStore, lastSecurity, retry>>
vars == <<users, access_controls, now, auditLog, aclVars, encVars, gdprVars, exportVars,
          keyVars, retVars, opsVars>>

(***************************************************************************)
(* Bounds                                                                  *)
(***************************************************************************)
MaxClock == 2
MaxLedgerCalls == 1
MaxEnvelopes == 1
MaxExecCalls == 2
MaxProcesses == 2
MaxSchedules == 1
MaxSweeps == 2
MaxDigestLen == 3
MaxRequests == 2
MaxWindow == 2
MaxRetries == 3

(***************************************************************************)
(* Domains                                                                 *)
(***************************************************************************)
UserIds == {"u1"}
Orgs == {"orgA", "orgB"}
Roles == {"owner", "admin", "user"}
Permission == {"read", "write", "delete", "admin"}
ResourceType == {"meeting", "action", "company", "user", "analytics", "file"}
NoResource == "none"
ResourceIds == {NoResource, "res1"}
NoExpiry == -1
None == [none |-> TRUE]

\* public.users rows: every user belongs to exactly one organization and
\* holds one of the three roles of the CHECK constraint.  u1 is a member of
\* orgA and of no other organization.
UserTables ==
    {t \in [UserIds -> [organization_id : Orgs, role : Roles]] :
        t["u1"].organization_id = "orgA"}

\* public.access_controls rows the ledger may hold when the service starts.
SeedGrants ==
    [userId : {"u1"}, organizationId : {"orgA"}, resourceType : {"company"},
     resourceId : {"res1"}, permission : {"write"},
     expiresAt : {NoExpiry, 0}, isActive : BOOLEAN]

(***************************************************************************)
(* lib/access-control.ts                                                   *)
(***************************************************************************)
\* The role/resource matrix literal of evaluatePermission.
rolePermissions ==
    [r \in Roles |->
        [t \in ResourceType |->
            CASE r = "owner" -> {"read", "write", "delete", "admin"}
              [] r = "admin" -> IF t = "user" THEN {"read", "write"}
                                ELSE {"read", "write", "delete"}
              [] r = "user"  -> IF t \in {"meeting", "action", "file"}
                                THEN {"read", "write"}
                                ELSE {"read"}]]

\* rolePermissions[userRole]?.[resourceType] || [] ; includes(required)
evaluatePermission(userRole, resourceType, requiredPermission) ==
    LET userPermissions ==
            IF userRole \in DOMAIN rolePermissions
            THEN rolePermissions[userRole][resourceType]
            ELSE {}
    IN  requiredPermission \in userPermissions

\* getUserRole: the users table is not queried; every caller is a `user`.
getUserRole(userId, organizationId) == "user"

\* A ledger row that names this request (resource-specific or wildcard).
GrantMatches(g, userId, organizationId, resourceType, requiredPermission, resourceId) ==
    /\ g.userId = userId
    /\ g.organizationId = organizationId
    /\ g.resourceType = resourceType
    /\ g.permission = requiredPermission
    /\ g.resourceId \in {resourceId, NoResource}

GrantExpired(g, t) == g.expiresAt # NoExpiry /\ g.expiresAt < t

\* What a check that honoured every matching row, dead or alive, would return.
checkPermissionAnyGrant(userId, organizationId, resourceType, requiredPermission, resourceId) ==
    LET hasPermission ==
            \/ evaluatePermission(getUserRole(userId, organizationId),
                                  resourceType, requiredPermission)
            \/ \E g \in access_controls :
                   GrantMatches(g, userId, organizationId, resourceType,
                                requiredPermission, resourceId)
    IN  [hasPermission |-> hasPermission,
         reason |-> IF hasPermission THEN "" ELSE "Insufficient permissions"]

\* checkPermission: role lookup, then the matrix; the ledger is not read.
checkPermission(userId, organizationId, resourceType, requiredPermission, resourceId) ==
    LET userRole == getUserRole(userId, organizationId)
        hasPermission == evaluatePermission(userRole, resourceType, requiredPermission)
    IN  [hasPermission |-> hasPermission,
         reason |-> IF hasPermission THEN "" ELSE "Insufficient permissions"]

\* Arguments a caller passes to grantPermission.
GrantArgs ==
    [organizationId : {"orgA"}, userId : UserIds, resourceType : {"company"},
     permission : {"write"}, grantedBy : {"u1"}, resourceId : {"res1"},
     expiresAt : {NoExpiry, now + 1}]

\* grantPermission: console.log of the arguments; the insert and the audit
\* call are comments, so neither the ledger nor the audit log changes.
GrantPermission(a) ==
    /\ ledgerCalls < MaxLedgerCalls
    /\ ledgerCalls' = ledgerCalls + 1
    /\ lastGrant' = [args |-> a, grantedAt |-> now, call |-> ledgerCalls + 1]
    /\ UNCHANGED <<users, access_controls, now, auditLog, lastCheck, encVars,
                   exportVars, keyVars, retVars, gdprVars, opsVars>>

\* revokePermission: console.log of the arguments only.
RevokePermission(organizationId, userId, resourceType, resourceId) ==
    /\ ledgerCalls < MaxLedgerCalls
    /\ ledgerCalls' = ledgerCalls + 1
    /\ UNCHANGED <<users, access_controls, now, auditLog, lastGrant, lastCheck, encVars,
                   exportVars, keyVars, retVars, gdprVars, opsVars>>

\* A caller invokes checkPermission and keeps the PermissionCheck.
CheckPermission(userId, organizationId, resourceType, requiredPermission, resourceId) ==
    /\ lastCheck' = [userId |-> userId, organizationId |-> organizationId,
                     resourceType |-> resourceType,
                     requiredPermission |-> requiredPermission,
                     resourceId |-> resourceId, at |-> now,
                     afterCalls |-> ledgerCalls,
                     result |-> checkPermission(userId, organizationId, resourceType,
                                                requiredPermission, resourceId)]
    /\ UNCHANGED <<users, access_controls, now, auditLog, ledgerCalls, lastGrant, encVars,
                   exportVars, keyVars, retVars, gdprVars, opsVars>>

\* The wall clock advances by one hour.
Tick ==
    /\ now < MaxClock
    /\ now' = now + 1
    /\ UNCHANGED <<users, access_controls, auditLog, aclVars, encVars,
                   exportVars, keyVars, retVars, gdprVars, opsVars>>

\* Callers that may start a retention sweep, and a caller with none in flight.
Sweepers == {"s1", "s2"}
Idle == [pc |-> "idle"]

\* The state of the services after construction: nothing logged, nothing
\* called.  The tables and the request object a caller holds are inputs.
Fresh ==
    /\ now = 0
    /\ auditLog = <<>>
    /\ ledgerCalls = 0
    /\ lastGrant = None
    /\ lastCheck = None
    /\ issued = {}
    /\ lastDecrypt = None
    /\ issuedCodes = {}
    /\ lastDeleteCall = None
    /\ deletionLog = <<>>
    /\ execCalls = 0
    /\ lastExec = None
    /\ lastResponse = None
    /\ lastValidate = None
    /\ lastExport = None
    /\ lastPost = None
    /\ processes = 1
    /\ scheduleLog = {}
    /\ lastSetPolicy = None
    /\ sweepLog = <<>>
    /\ sweepers = [p \in Sweepers |-> Idle]
    /\ retry = Idle
    /\ lastSecurity = None
    /\ rateLimitStore = {}
    /\ lastVerify = None
    /\ lastPolicy = None

\* process.env.MASTER_ENCRYPTION_KEY: a key, or unset (falsy).
MasterKeys == {1, 2}
NoMasterKey == 0

\* constructor: process.env.MASTER_ENCRYPTION_KEY || generateMasterKey(),
\* where generated is what crypto.randomBytes returned.  There is no
\* failing path.
constructor(generated) ==
    [masterKey |-> IF env # NoMasterKey THEN env ELSE generated,
     outcome |-> "constructed"]

\* The encryption service constructed with MASTER_ENCRYPTION_KEY set.
ConfiguredStart ==
    /\ env = 1
    /\ masterKey = constructor(NoMasterKey).masterKey
    /\ lastConstruct = [configured |-> TRUE, outcome |-> constructor(NoMasterKey).outcome]

\* Organizations in the standard compliance mode and no meeting on record.
ComplianceModes == {"standard", "gdpr", "hipaa", "sox"}
NoRetentionData ==
    /\ organizations = [o \in Orgs |-> "standard"]
    /\ meetings = {}

PendingRequest ==
    [userId |-> "u1", organizationId |-> "orgA", confirmationCode |-> "c1",
     requestedBy |-> "u1", status |-> "pending"]

\* Permission checks against any users table and any seeded ledger.
InitCheck ==
    /\ Fresh
    /\ NoRetentionData
    /\ ConfiguredStart
    /\ audit_logs = {}
    /\ users \in UserTables
    /\ access_controls \in {{}} \cup {{g} : g \in SeedGrants}
    /\ request = PendingRequest

NextCheck ==
    \/ \E u \in UserIds, o \in Orgs, t \in ResourceType, p \in Permission,
          r \in ResourceIds : CheckPermission(u, o, t, p, r)
    \/ Tick

SpecCheck == InitCheck /\ [][NextCheck]_vars

\* The grant ledger: grants, revocations and checks of company resources,
\* starting from an empty ledger.
InitAcl ==
    /\ Fresh
    /\ NoRetentionData
    /\ ConfiguredStart
    /\ audit_logs = {}
    /\ users \in UserTables
    /\ access_controls = {}
    /\ request = PendingRequest

NextAcl ==
    \/ \E a \in GrantArgs : GrantPermission(a)
    \/ \E o \in Orgs, u \in UserIds, r \in ResourceIds :
           RevokePermission(o, u, "company", r)
    \/ \E u \in UserIds, o \in Orgs, p \in Permission, r \in ResourceIds :
           CheckPermission(u, o, "company", p, r)
    \/ Tick

SpecAcl == InitAcl /\ [][NextAcl]_vars


(***************************************************************************)
(* lib/encryption.ts                                                       *)
(*                                                                         *)
(* AES-256-GCM is modelled as an ideal authenticated cipher over a small   *)
(* alphabet: the ciphertext is the plaintext shifted by the key, and the   *)
(* tag binds key, associated data and ciphertext.  createCipher derives    *)
(* key and IV from its password argument, so the random iv of an envelope  *)
(* is carried along but takes no part in the encryption.                   *)
(***************************************************************************)
PlainMod == 3
EmptyString == 0
Plaintexts == {1, 2}
DataKeys == {1, 2}
IVs == {1}
NullKey == 0
NullBuffer == -1
AadData == "meeting-maestro"
AadFile == "meeting-maestro-file"
KeyIds == {"uuid1", "uuid2", "uuid3"}
UnknownKeyId == "uuid0"

GcmCipher(key, data) == (data + key) % PlainMod
GcmDecipher(key, encrypted) == (encrypted + PlainMod - key) % PlainMod
GcmTag(key, aad, encrypted) == <<key, aad, encrypted>>

\* crypto.randomUUID(): an identifier no earlier envelope carries.
randomUUID == CHOOSE id \in KeyIds : \A i \in issued : i.envelope.keyId # id

\* encryptWithKey: cipher.update/final, getAuthTag, fresh keyId.
encryptWithKey(data, key, iv) ==
    [encrypted |-> GcmCipher(key, data), iv |-> iv,
     tag |-> GcmTag(key, AadData, GcmCipher(key, data)), keyId |-> randomUUID]

\* decryptWithKey: decipher.final throws on a tag mismatch; the catch
\* returns the empty string with success = false.
decryptWithKey(encryptedData, key) ==
    IF encryptedData.tag = GcmTag(key, AadData, encryptedData.encrypted)
    THEN [decrypted |-> GcmDecipher(key, encryptedData.encrypted), success |-> TRUE]
    ELSE [decrypted |-> EmptyString, success |-> FALSE]

\* A key store that resolves a key identifier without binding it to the
\* organization that asks.
retrieveAndDecryptKeyAnyOrg(keyId, organizationId) ==
    IF \E i \in issued : i.envelope.keyId = keyId
    THEN (CHOOSE i \in issued : i.envelope.keyId = keyId).dataKey
    ELSE NullKey

\* retrieveAndDecryptKey: the encryption_keys table is not read; null.
retrieveAndDecryptKey(keyId, organizationId) == NullKey

\* decryptData
decryptData(encryptedData, organizationId) ==
    LET dataKey == retrieveAndDecryptKey(encryptedData.keyId, organizationId)
    IN  IF dataKey = NullKey
        THEN [decrypted |-> EmptyString, success |-> FALSE]
        ELSE decryptWithKey(encryptedData, dataKey)

\* decryptFile: a Buffer, or null when the key is missing or the tag fails.
decryptFile(encryptedData, organizationId) ==
    LET dataKey == retrieveAndDecryptKey(encryptedData.keyId, organizationId)
    IN  IF dataKey = NullKey
        THEN NullBuffer
        ELSE IF encryptedData.tag = GcmTag(dataKey, AadFile, encryptedData.encrypted)
             THEN GcmDecipher(dataKey, encryptedData.encrypted)
             ELSE NullBuffer

\* encryptKey: the data key under the master key, the organization as
\* associated data; ciphertext and tag.
encryptKey(dataKey, organizationId) ==
    [encrypted |-> GcmCipher(masterKey, dataKey),
     tag |-> GcmTag(masterKey, organizationId, GcmCipher(masterKey, dataKey))]

\* decryptKey: the data key, or null when the tag does not verify under the
\* master key of this process.
decryptKey(encryptedKey, organizationId) ==
    IF encryptedKey.tag = GcmTag(masterKey, organizationId, encryptedKey.encrypted)
    THEN GcmDecipher(masterKey, encryptedKey.encrypted)
    ELSE NullKey

\* encryptData: generateDataKey, encryptKey, storeEncryptedKey (console.log
\* only: the wrapped key is dropped), encryptWithKey.
EncryptData(data, organizationId, dataKey, iv) ==
    /\ Cardinality(issued) < MaxEnvelopes
    /\ issued' = issued \cup
           {[kind |-> "data", envelope |-> encryptWithKey(data, dataKey, iv),
             plaintext |-> data, organizationId |-> organizationId,
             dataKey |-> dataKey,
             encryptedKey |-> encryptKey(dataKey, organizationId),
             process |-> processes]}
    /\ UNCHANGED <<users, access_controls, now, auditLog, aclVars,
                   exportVars, keyVars, retVars, lastDecrypt, gdprVars, opsVars>>

\* encryptFile: the same steps inline, with the file domain tag.
EncryptFile(fileBuffer, organizationId, dataKey, iv) ==
    /\ Cardinality(issued) < MaxEnvelopes
    /\ issued' = issued \cup
           {[kind |-> "file",
             envelope |-> [encrypted |-> GcmCipher(dataKey, fileBuffer), iv |-> iv,
                           tag |-> GcmTag(dataKey, AadFile,
                                          GcmCipher(dataKey, fileBuffer)),
                           keyId |-> randomUUID],
             plaintext |-> fileBuffer, organizationId |-> organizationId,
             dataKey |-> dataKey,
             encryptedKey |-> encryptKey(dataKey, organizationId),
             process |-> processes]}
    /\ UNCHANGED <<users, access_controls, now, auditLog, aclVars,
                   exportVars, keyVars, retVars, lastDecrypt, gdprVars, opsVars>>

\* Envelopes a caller may present: one that was returned, or one of those
\* with its ciphertext, its tag or its key identifier altered.
Presented(e) ==
    {e,
     [e EXCEPT !.encrypted = (e.encrypted + 1) % PlainMod],
     [e EXCEPT !.tag = <<e.tag[1], e.tag[2], (e.tag[3] + 1) % PlainMod>>],
     [e EXCEPT !.keyId = UnknownKeyId]}

DecryptData(encryptedData, organizationId) ==
    /\ lastDecrypt' = [kind |-> "data", envelope |-> encryptedData,
                       organizationId |-> organizationId,
                       result |-> decryptData(encryptedData, organizationId)]
    /\ UNCHANGED <<users, access_controls, now, auditLog, aclVars,
                   exportVars, keyVars, retVars, issued, gdprVars, opsVars>>

DecryptFile(encryptedData, organizationId) ==
    /\ lastDecrypt' = [kind |-> "file", envelope |-> encryptedData,
                       organizationId |-> organizationId,
                       result |-> decryptFile(encryptedData, organizationId)]
    /\ UNCHANGED <<users, access_controls, now, auditLog, aclVars,
                   exportVars, keyVars, retVars, issued, gdprVars, opsVars>>

NextEnc ==
    \/ \E p \in Plaintexts, o \in Orgs, k \in DataKeys, iv \in IVs :
           EncryptData(p, o, k, iv)
    \/ \E p \in Plaintexts, o \in Orgs, k \in DataKeys, iv \in IVs :
           EncryptFile(p, o, k, iv)
    \/ \E i \in issued, o \in Orgs :
           \E e \in Presented(i.envelope) : DecryptData(e, o)
    \/ \E i \in issued, o \in Orgs :
           \E e \in Presented(i.envelope) : DecryptFile(e, o)

InitEnc ==
    /\ Fresh
    /\ NoRetentionData
    /\ ConfiguredStart
    /\ audit_logs = {}
    /\ users \in UserTables
    /\ access_controls = {}
    /\ request = PendingRequest

SpecEnc == InitEnc /\ [][NextEnc]_vars

\* The process restarts: the module is loaded again and the service is
\* constructed anew; what earlier processes returned lives on outside.
Restart(generated) ==
    /\ processes < MaxProcesses
    /\ processes' = processes + 1
    /\ masterKey' = constructor(generated).masterKey
    /\ lastConstruct' = [configured |-> env # NoMasterKey,
                         outcome |-> constructor(generated).outcome]
    /\ UNCHANGED <<users, access_controls, now, auditLog, aclVars, encVars, gdprVars,
                   exportVars, retVars, env, opsVars>>

InitKeys ==
    /\ Fresh
    /\ NoRetentionData
    /\ users \in UserTables
    /\ access_controls = {}
    /\ request = PendingRequest
    /\ audit_logs = {}
    /\ env \in MasterKeys \cup {NoMasterKey}
    /\ \E generated \in MasterKeys :
           /\ masterKey = constructor(generated).masterKey
           /\ lastConstruct = [configured |-> env # NoMasterKey,
                               outcome |-> constructor(generated).outcome]

NextKeys ==
    \/ \E p \in Plaintexts, o \in Orgs, k \in DataKeys, iv \in IVs :
           EncryptData(p, o, k, iv)
    \/ \E p \in Plaintexts, o \in Orgs, k \in DataKeys, iv \in IVs :
           EncryptFile(p, o, k, iv)
    \/ \E generated \in MasterKeys : Restart(generated)

SpecKeys == InitKeys /\ [][NextKeys]_vars

(***************************************************************************)
(* Encryption: claims                                                      *)
(***************************************************************************)
\* The issued envelope lastDecrypt presented unmodified, to the same kind of
\* decrypt call and for the organization that encrypted it.
Originals ==
    {i \in issued : /\ i.envelope = lastDecrypt.envelope
                    /\ i.kind = lastDecrypt.kind
                    /\ i.organizationId = lastDecrypt.organizationId}

\* C1: decrypting an envelope returned by encryptData / encryptFile, for
\* the organization it was encrypted for, succeeds and yields the plaintext.
C1_RoundTrip ==
    lastDecrypt # None =>
        \A i \in Originals :
            IF i.kind = "data"
            THEN lastDecrypt.result = [decrypted |-> i.plaintext, success |-> TRUE]
            ELSE lastDecrypt.result = i.plaintext

DecryptFailed ==
    IF lastDecrypt.kind = "data"
    THEN lastDecrypt.result = [decrypted |-> EmptyString, success |-> FALSE]
    ELSE lastDecrypt.result = NullBuffer

\* C2: a decrypt call for another organization, an unknown key identifier or
\* an envelope with altered ciphertext or tag reports failure; plaintext is
\* returned only for an unmodified envelope and its own organization.
C2_FailsClosed ==
    lastDecrypt # None => (Originals = {} => DecryptFailed)

\* An issued envelope was presented for the other organization, and the
\* call reported failure.
C2_Witness ==
    /\ lastDecrypt # None
    /\ \E i \in issued : /\ i.envelope = lastDecrypt.envelope
                         /\ i.kind = lastDecrypt.kind
                         /\ i.organizationId # lastDecrypt.organizationId
    /\ DecryptFailed


(***************************************************************************)
(* lib/audit.ts                                                            *)
(***************************************************************************)
NextRequestObject == [kind |-> "NextRequest"]
PlainObject == [kind |-> "object"]
Undefined == [kind |-> "undefined"]
Thrown == [kind |-> "thrown"]

\* new NextRequest(url): the constructor validates the URL and throws on
\* one that does not parse as an absolute URL, such as ''.
NewNextRequest(url) == IF url = "" THEN Thrown ELSE NextRequestObject

\* getClientIP: request.headers.get(...); a value without headers throws.
getClientIP(req) == IF req.kind = "NextRequest" THEN "unknown" ELSE Thrown

\* logDataAccess(userId, organizationId, resourceType, resourceId, action,
\* request, metadata): builds the entry (reading the request's headers) and
\* hands it to log, which writes it.  The entry, or Thrown.
logDataAccess(userId, organizationId, resourceType, resourceId, action, req, metadata) ==
    IF getClientIP(req) = Thrown
    THEN Thrown
    ELSE [action |-> action, resourceType |-> resourceType,
          resourceId |-> resourceId, userId |-> userId,
          organizationId |-> organizationId]

(***************************************************************************)
(* lib/user-data-management.ts                                             *)
(***************************************************************************)
Codes == {"c1", "c2"}
Status == {"pending", "approved", "rejected", "completed"}
DeletionSteps == <<"deletePersonalData", "deleteOrganizationData",
                   "scheduleAuditTrailDeletion">>

\* DataDeletionRequest objects a caller may hold.
HeldRequests ==
    [userId : {"u1"}, organizationId : {"orgA"}, confirmationCode : Codes,
     requestedBy : {"u1"}, status : Status]

\* The audit call that closes executeDataDeletion and deleteUserData: six
\* arguments, the fifth a NextRequest built from '', for the seven
\* parameters of logDataAccess.
LogWithEmptyRequest(userId, organizationId, resourceType, resourceId) ==
    LET r == NewNextRequest("")
    IN  IF r = Thrown
        THEN Thrown
        ELSE logDataAccess(userId, organizationId, resourceType, resourceId,
                           r, PlainObject, Undefined)

\* executeDataDeletion without the comparison of the confirmation codes.
executeDataDeletionNoCodeCheck(deletionRequest, confirmationCode) ==
    IF deletionRequest.status # "pending"
    THEN [outcome |-> "Deletion request is not pending", steps |-> <<>>,
          entries |-> <<>>]
    ELSE [outcome |-> "TypeError", steps |-> DeletionSteps, entries |-> <<>>]

\* executeDataDeletion: the outcome (true, or the error thrown), the
\* deletion steps that ran and the audit entries written.  The request
\* object is read, never assigned.
executeDataDeletion(deletionRequest, confirmationCode) ==
    IF deletionRequest.confirmationCode # confirmationCode
    THEN [outcome |-> "Invalid confirmation code", steps |-> <<>>, entries |-> <<>>]
    ELSE IF deletionRequest.status # "pending"
    THEN [outcome |-> "Deletion request is not pending", steps |-> <<>>,
          entries |-> <<>>]
    ELSE LET logged == LogWithEmptyRequest(deletionRequest.requestedBy,
                                           deletionRequest.organizationId,
                                           "user_data", "deleted")
         IN  IF logged = Thrown
             THEN [outcome |-> "TypeError", steps |-> DeletionSteps,
                   entries |-> <<>>]
             ELSE [outcome |-> "true", steps |-> DeletionSteps,
                   entries |-> <<logged>>]

\* The steps of one executeDataDeletion run, as deletionLog records them.
StepRecords(r, deletionRequest, confirmationCode, via, call) ==
    [i \in 1..Len(r.steps) |->
        [step |-> r.steps[i], userId |-> deletionRequest.userId,
         code |-> confirmationCode, via |-> via, call |-> call]]

\* A caller runs executeDataDeletion on the request object it holds.
ExecuteDataDeletion(confirmationCode) ==
    /\ execCalls < MaxExecCalls
    /\ LET r == executeDataDeletion(request, confirmationCode)
       IN  /\ deletionLog' = deletionLog \o
                  StepRecords(r, request, confirmationCode, "service", execCalls + 1)
           /\ auditLog' = auditLog \o r.entries
           /\ lastExec' = [call |-> execCalls + 1, via |-> "service",
                           request |-> request, code |-> confirmationCode,
                           outcome |-> r.outcome]
    /\ execCalls' = execCalls + 1
    /\ UNCHANGED <<users, access_controls, now, aclVars, encVars,
                   exportVars, keyVars, retVars, request,
                   issuedCodes, lastDeleteCall, lastResponse, opsVars>>

\* deleteUserData: permission check on (user, delete) for requestedBy, then
\* the request with a generated code, then the audit call; the request is
\* returned only if nothing threw.
deleteUserData(userId, organizationId, requestedBy, code) ==
    LET allowed == checkPermission(requestedBy, organizationId, "user", "delete",
                                   NoResource).hasPermission
        logged == LogWithEmptyRequest(requestedBy, organizationId,
                                      "user_data", "delete_request")
        outcome == IF ~allowed THEN "Insufficient permissions to delete data"
                   ELSE IF logged = Thrown THEN "TypeError"
                   ELSE "pending"
    IN  /\ issuedCodes' = IF outcome = "pending"
                          THEN issuedCodes \cup {[userId |-> userId, code |-> code]}
                          ELSE issuedCodes
        /\ auditLog' = IF outcome = "pending" THEN Append(auditLog, logged)
                       ELSE auditLog
        /\ UNCHANGED <<users, access_controls, now, aclVars, encVars,
                       exportVars, keyVars, retVars, request,
                       deletionLog, execCalls, lastExec, opsVars>>
        /\ lastDeleteCall' = [userId |-> userId, organizationId |-> organizationId,
                              requestedBy |-> requestedBy, outcome |-> outcome,
                              code |-> code, codesBefore |-> issuedCodes,
                              stepsBefore |-> Len(deletionLog),
                              stepsAfter |-> Len(deletionLog')]

\* A caller of the service invokes deleteUserData directly.
DeleteUserData(userId, organizationId, requestedBy, code) ==
    /\ deleteUserData(userId, organizationId, requestedBy, code)
    /\ UNCHANGED lastResponse

(***************************************************************************)
(* app/api/user-data/delete/route.ts                                       *)
(***************************************************************************)
NoSession == "anonymous"
BodyStrings == Codes \cup {""}

\* PUT: 401 without a session, 400 on an empty field; otherwise a request
\* literal is built from the body (confirmationCode: deletionRequestId,
\* status: 'pending') and passed to executeDataDeletion with the body's
\* confirmationCode.  Every error ends in the catch block: 500.
PUT(sessionUser, deletionRequestId, confirmationCode) ==
    IF sessionUser = NoSession
    THEN /\ lastResponse' = [method |-> "PUT", status |-> 401]
         /\ UNCHANGED <<users, access_controls, now, auditLog, aclVars, encVars,
                        exportVars, keyVars, retVars,
                        request, issuedCodes, lastDeleteCall, deletionLog,
                        execCalls, lastExec, opsVars>>
    ELSE IF deletionRequestId = "" \/ confirmationCode = ""
    THEN /\ lastResponse' = [method |-> "PUT", status |-> 400]
         /\ UNCHANGED <<users, access_controls, now, auditLog, aclVars, encVars,
                        exportVars, keyVars, retVars,
                        request, issuedCodes, lastDeleteCall, deletionLog,
                        execCalls, lastExec, opsVars>>
    ELSE
      /\ execCalls < MaxExecCalls
      /\ LET literal == [userId |-> sessionUser,
                         organizationId |-> users[sessionUser].organization_id,
                         confirmationCode |-> deletionRequestId,
                         requestedBy |-> sessionUser, status |-> "pending"]
             r == executeDataDeletion(literal, confirmationCode)
             logged == logDataAccess(sessionUser, literal.organizationId,
                                     "user_data", "deleted", NextRequestObject,
                                     PlainObject, Undefined)
         IN  /\ deletionLog' = deletionLog \o
                    StepRecords(r, literal, confirmationCode, "PUT", execCalls + 1)
             /\ lastExec' = [call |-> execCalls + 1, via |-> "PUT",
                             request |-> literal, code |-> confirmationCode,
                             outcome |-> r.outcome]
             /\ IF r.outcome = "true" /\ logged # Thrown
                THEN /\ auditLog' = (auditLog \o r.entries) \o <<logged>>
                     /\ lastResponse' = [method |-> "PUT", status |-> 200]
                ELSE /\ auditLog' = auditLog \o r.entries
                     /\ lastResponse' = [method |-> "PUT", status |-> 500]
      /\ execCalls' = execCalls + 1
      /\ UNCHANGED <<users, access_controls, now, aclVars, encVars,
                     exportVars, keyVars, retVars, request,
                     issuedCodes, lastDeleteCall, opsVars>>

\* POST: 401 without a session, 403 unless checkPermission grants (user,
\* delete) to the session user, 400 on an empty field; otherwise
\* deleteUserData for the user's own data, then the route's audit call.
\* Every error ends in the catch block: 500.
DeletePOST(sessionUser, reason, confirmationCode, generated) ==
    LET answer(status) == [method |-> "POST", status |-> status,
                           sessionUser |-> sessionUser, reason |-> reason,
                           confirmationCode |-> confirmationCode]
    IN
    IF sessionUser = NoSession
    THEN /\ lastResponse' = answer(401)
         /\ UNCHANGED <<users, access_controls, now, auditLog, aclVars, encVars,
                        exportVars, keyVars, retVars,
                        request, issuedCodes, lastDeleteCall, deletionLog,
                        execCalls, lastExec, opsVars>>
    ELSE IF ~checkPermission(sessionUser, users[sessionUser].organization_id,
                             "user", "delete", NoResource).hasPermission
    THEN /\ lastResponse' = answer(403)
         /\ UNCHANGED <<users, access_controls, now, auditLog, aclVars, encVars,
                        exportVars, keyVars, retVars,
                        request, issuedCodes, lastDeleteCall, deletionLog,
                        execCalls, lastExec, opsVars>>
    ELSE IF reason = "" \/ confirmationCode = ""
    THEN /\ lastResponse' = answer(400)
         /\ UNCHANGED <<users, access_controls, now, auditLog, aclVars, encVars,
                        exportVars, keyVars, retVars,
                        request, issuedCodes, lastDeleteCall, deletionLog,
                        execCalls, lastExec, opsVars>>
    ELSE
      /\ deleteUserData(sessionUser, users[sessionUser].organization_id,
                        sessionUser, generated)
      /\ LET logged == logDataAccess(sessionUser, users[sessionUser].organization_id,
                                     "user_data", "delete_request",
                                     NextRequestObject, PlainObject, Undefined)
         IN  lastResponse' = IF lastDeleteCall'.outcome = "pending" /\ logged # Thrown
                             THEN answer(200) ELSE answer(500)

InitGdpr ==
    /\ Fresh
    /\ NoRetentionData
    /\ ConfiguredStart
    /\ audit_logs = {}
    /\ users \in UserTables
    /\ access_controls = {}
    /\ request \in HeldRequests

NextGdpr ==
    \/ \E c \in Codes : ExecuteDataDeletion(c)
    \/ \E u \in UserIds, o \in Orgs, by \in UserIds, c \in Codes :
           DeleteUserData(u, o, by, c)
    \/ \E u \in UserIds \cup {NoSession}, id \in BodyStrings, c \in BodyStrings :
           PUT(u, id, c)

SpecGdpr == InitGdpr /\ [][NextGdpr]_vars

\* The self-service entry point alone: requests for one's own data.
NextSelfService ==
    \E u \in UserIds \cup {NoSession}, r \in BodyStrings, c \in BodyStrings,
       g \in Codes :
        DeletePOST(u, r, c, g)

SpecSelfService == InitGdpr /\ [][NextSelfService]_vars

(***************************************************************************)
(* GDPR deletion: claims                                                   *)
(***************************************************************************)
\* C8: an executeDataDeletion call whose code differs from the request's
\* confirmationCode throws, and the call runs no deletion step, schedules
\* nothing, writes no audit entry and leaves every record, the request's
\* status included, as it was.
C8_MismatchChangesNothing ==
    [][(lastExec' # lastExec
          /\ lastExec'.code # lastExec'.request.confirmationCode)
        => (/\ lastExec'.outcome = "Invalid confirmation code"
            /\ deletionLog' = deletionLog
            /\ auditLog' = auditLog
            /\ request' = request
            /\ users' = users
            /\ access_controls' = access_controls
            /\ issuedCodes' = issuedCodes)]_vars

\* A pending request was executed with the wrong code: the call threw and
\* nothing was deleted.
C8_Witness ==
    /\ lastExec # None
    /\ lastExec.request.status = "pending"
    /\ lastExec.code # lastExec.request.confirmationCode
    /\ lastExec.outcome = "Invalid confirmation code"
    /\ deletionLog = <<>>

\* C9: a deletion step run through the PUT endpoint belongs to a request
\* deleteUserData created for that user, and the code the caller supplied
\* is the code the server generated for it.
C9_OnlyIssuedCodes ==
    \A i \in DOMAIN deletionLog :
        deletionLog[i].via = "PUT"
            => [userId |-> deletionLog[i].userId, code |-> deletionLog[i].code]
                   \in issuedCodes

\* The executeDataDeletion calls on the held request that ran deletion steps.
DeletingCalls ==
    {deletionLog[i].call : i \in {j \in DOMAIN deletionLog :
                                      deletionLog[j].via = "service"}}

\* C10: executeDataDeletion throws on a request that is not pending, a
\* call that returns true leaves the request completed, and at most one
\* call on the same request runs deletion steps.
C10_AtMostOnce ==
    /\ (lastExec # None /\ lastExec.request.status # "pending")
           => /\ lastExec.outcome \in {"Invalid confirmation code",
                                       "Deletion request is not pending"}
              /\ lastExec.call \notin DeletingCalls
    /\ (lastExec # None /\ lastExec.via = "service" /\ lastExec.outcome = "true")
           => request.status = "completed"
    /\ Cardinality(DeletingCalls) <= 1

(***************************************************************************)
(* Access control: claims                                                  *)
(***************************************************************************)
\* The permission matrix of SECURITY.md (R/W/D/A per role and resource).
PermissionMatrix ==
    [r \in Roles |->
        [t \in ResourceType |->
            CASE r = "owner" -> {"read", "write", "delete", "admin"}
              [] r = "admin" -> IF t = "user" THEN {"read", "write"}
                                ELSE {"read", "write", "delete"}
              [] r = "user"  -> IF t \in {"meeting", "action", "file"}
                                THEN {"read", "write"}
                                ELSE {"read"}]]

IsMember(userId, organizationId) ==
    users[userId].organization_id = organizationId

\* Ledger rows that name the request of lastCheck.
MatchingGrants ==
    {g \in access_controls :
        GrantMatches(g, lastCheck.userId, lastCheck.organizationId,
                     lastCheck.resourceType, lastCheck.requiredPermission,
                     lastCheck.resourceId)}

DeadGrants ==
    {g \in MatchingGrants : ~g.isActive \/ GrantExpired(g, lastCheck.at)}

\* C3: a check for a user who is not a member of the organization returns
\* hasPermission = false, whatever the resource type and permission.
C3_NonMemberDenied ==
    (lastCheck # None /\ ~IsMember(lastCheck.userId, lastCheck.organizationId))
        => ~lastCheck.result.hasPermission

\* C4: with no explicit grant present, a check for a member returns true
\* exactly for the permissions the matrix lists for the member's role.
C4_MatrixComplete ==
    (lastCheck # None /\ access_controls = {}
        /\ IsMember(lastCheck.userId, lastCheck.organizationId))
        => (lastCheck.result.hasPermission
              <=> lastCheck.requiredPermission
                    \in PermissionMatrix[users[lastCheck.userId].role][lastCheck.resourceType])

\* lastCheck asks for what lastGrant granted, and no ledger call came between.
ChecksLastGrant ==
    /\ lastGrant # None
    /\ lastCheck # None
    /\ lastCheck.afterCalls = lastGrant.call
    /\ lastCheck.userId = lastGrant.args.userId
    /\ lastCheck.organizationId = lastGrant.args.organizationId
    /\ lastCheck.resourceType = lastGrant.args.resourceType
    /\ lastCheck.resourceId = lastGrant.args.resourceId
    /\ lastCheck.requiredPermission = lastGrant.args.permission

\* C5: a `user` given a one-hour `write` grant on a company resource passes
\* the check made in the hour of the grant and fails it after the expiry.
C5_TimeLimitedGrant ==
    (/\ ChecksLastGrant
     /\ users[lastGrant.args.userId].role = "user"
     /\ IsMember(lastGrant.args.userId, lastGrant.args.organizationId)
     /\ lastGrant.args.resourceType = "company"
     /\ lastGrant.args.permission = "write"
     /\ lastGrant.args.expiresAt = lastGrant.grantedAt + 1)
        => /\ lastCheck.at = lastGrant.grantedAt => lastCheck.result.hasPermission
           /\ lastCheck.at > lastGrant.args.expiresAt => ~lastCheck.result.hasPermission

\* C6: when every ledger row that names the request is inactive or expired,
\* the check returns what the role matrix gives for the role the service
\* resolved, so such a row never turns a denial into hasPermission = true.
C6_DeadGrantNeverCounts ==
    (lastCheck # None /\ DeadGrants # {} /\ MatchingGrants = DeadGrants)
        => (lastCheck.result.hasPermission
              <=> lastCheck.requiredPermission
                    \in PermissionMatrix[getUserRole(lastCheck.userId,
                                                     lastCheck.organizationId)]
                                        [lastCheck.resourceType])

\* A check of company/write against a ledger whose only matching row is dead
\* was made and denied.
C6_Witness ==
    /\ lastCheck # None
    /\ DeadGrants # {}
    /\ MatchingGrants = DeadGrants
    /\ lastCheck.requiredPermission = "write"
    /\ ~lastCheck.result.hasPermission

IsLedgerAudit(e) == e.resourceType = "access_control"

\* C7: every completed grantPermission / revokePermission call has its own
\* audit-log entry.
C7_LedgerAudited ==
    ledgerCalls <= Len(SelectSeq(auditLog, IsLedgerAudit))

(***************************************************************************)
(* lib/user-data-management.ts: data export                                *)
(***************************************************************************)
RateLimitHours == 24
RateLimitReason == "Export rate limit exceeded. Please wait 24 hours."
Formats == {"json", "xml"}
supportedFormats == {"json", "csv", "pdf"}

\* public.audit_logs rows of an earlier export of u1, written 24 or 22
\* hours before the clock's origin.
SeedExports ==
    [user_id : {"u1"}, organization_id : {"orgA"}, action : {"export"},
     resource_type : {"user_data"}, created_at : {0 - 24, 0 - 22}]

\* getRecentExports: the audit log is not queried; an empty list.
getRecentExports(userId, organizationId) == <<>>

\* validateDataExportRequest: checkUserExists is always true; then the
\* format, then the age in hours of the first recent export.
validateDataExportRequest(userId, organizationId, format) ==
    LET recentExports == getRecentExports(userId, organizationId)
    IN  IF format \notin supportedFormats
        THEN [valid |-> FALSE, reason |-> "Unsupported export format"]
        ELSE IF /\ Len(recentExports) > 0
                /\ now - recentExports[1].exportDate < RateLimitHours
        THEN [valid |-> FALSE, reason |-> RateLimitReason]
        ELSE [valid |-> TRUE, reason |-> "none"]

\* exportUserData: permission check on (user, read), the three collections,
\* the export structure, then the audit call (six arguments, the fifth a
\* NextRequest built from ''); the structure is returned only if nothing
\* threw.  The outcome, the structure and the audit entries written.
exportUserData(userId, organizationId, format) ==
    LET allowed == checkPermission(userId, organizationId, "user", "read",
                                   NoResource).hasPermission
        exportData == [userId |-> userId, organizationId |-> organizationId,
                       personalData |-> "personalData",
                       organizationData |-> "organizationData",
                       auditTrail |-> "auditTrail",
                       exportDate |-> now, format |-> format]
        logged == LogWithEmptyRequest(userId, organizationId, "user_data", "export")
    IN  IF ~allowed
        THEN [outcome |-> "Insufficient permissions to export data",
              data |-> None, entries |-> <<>>]
        ELSE IF logged = Thrown
        THEN [outcome |-> "TypeError", data |-> None, entries |-> <<>>]
        ELSE [outcome |-> "exported", data |-> exportData, entries |-> <<logged>>]

ValidateDataExportRequest(userId, organizationId, format) ==
    /\ lastValidate' = [userId |-> userId, organizationId |-> organizationId,
                        format |-> format, at |-> now,
                        result |-> validateDataExportRequest(userId, organizationId,
                                                             format)]
    /\ UNCHANGED <<users, access_controls, now, auditLog, aclVars, encVars, gdprVars,
                   keyVars, retVars, audit_logs, lastExport, lastPost, opsVars>>

ExportUserData(userId, organizationId, format) ==
    LET r == exportUserData(userId, organizationId, format)
    IN  /\ auditLog' = auditLog \o r.entries
        /\ lastExport' = [userId |-> userId, organizationId |-> organizationId,
                          format |-> format, at |-> now, outcome |-> r.outcome,
                          data |-> r.data, entries |-> r.entries]
        /\ UNCHANGED <<users, access_controls, now, aclVars, encVars, gdprVars,
                       keyVars, retVars, audit_logs, lastValidate, lastPost, opsVars>>

(***************************************************************************)
(* app/api/user-data/export/route.ts                                       *)
(***************************************************************************)
\* POST: 401 without a session, 403 without (user, read), 400 when the
\* validation fails; then exportUserData and the route's own audit call
\* (six arguments, the fifth the request).  Every error ends in 500.
POST(sessionUser, format) ==
    LET organizationId == users[sessionUser].organization_id
        allowed == checkPermission(sessionUser, organizationId, "user", "read",
                                   NoResource).hasPermission
        validation == validateDataExportRequest(sessionUser, organizationId, format)
        r == exportUserData(sessionUser, organizationId, format)
        logged == logDataAccess(sessionUser, organizationId, "user_data", "export",
                                NextRequestObject, PlainObject, Undefined)
        status == IF sessionUser = NoSession THEN 401
                  ELSE IF ~allowed THEN 403
                  ELSE IF ~validation.valid THEN 400
                  ELSE IF r.outcome # "exported" \/ logged = Thrown THEN 500
                  ELSE 200
        ran == status \in {200, 500}
    IN  /\ lastPost' = [sessionUser |-> sessionUser, format |-> format,
                        status |-> status]
        /\ auditLog' = IF ~ran THEN auditLog
                       ELSE IF status = 200 THEN (auditLog \o r.entries) \o <<logged>>
                       ELSE auditLog \o r.entries
        /\ UNCHANGED <<users, access_controls, now, aclVars, encVars, gdprVars,
                       keyVars, retVars, audit_logs, lastValidate, lastExport, opsVars>>

InitExport ==
    /\ Fresh
    /\ NoRetentionData
    /\ ConfiguredStart
    /\ users \in UserTables
    /\ access_controls = {}
    /\ request = PendingRequest
    /\ audit_logs \in {{}} \cup {{e} : e \in SeedExports}

NextExport ==
    \/ \E u \in UserIds, o \in Orgs, f \in Formats : ValidateDataExportRequest(u, o, f)
    \/ \E u \in UserIds, o \in Orgs, f \in Formats : ExportUserData(u, o, f)
    \/ \E u \in UserIds \cup {NoSession}, f \in Formats : POST(u, f)
    \/ Tick

SpecExport == InitExport /\ [][NextExport]_vars

(***************************************************************************)
(* lib/data-retention.ts                                                   *)
(***************************************************************************)
HoursPerDay == 24
DefaultRetentionDays == 90
NullTimestamp == -1
NoPolicy == [resourceType |-> "none"]
RetentionTypes == {"meeting", "document"}
MeetingIds == {"m1"}

\* retentionDays arguments of setRetentionPolicy: at and above the two
\* ceilings.
PolicyDays == {365, 366, 2555, 2556}

\* retentionDays arguments of scheduleDataDeletion: omitted (undefined), or a
\* number of days.
Omitted == -1
ScheduleDays == {Omitted, 0, 1}

\* Organization settings: the compliance mode of orgA.
OrgTables ==
    {[o \in Orgs |-> IF o = "orgA" THEN m ELSE "standard"] : m \in ComplianceModes}

\* public.meetings rows with their auto-deletion date (in hours).
SeedMeetings ==
    [id : MeetingIds, organizationId : {"orgA"}, resourceType : {"meeting"},
     retention_until : {NullTimestamp, 0, HoursPerDay}]

\* getMaxRetentionDays: the table of ceilings, read at 'standard' whatever
\* the organization.
complianceModes ==
    [m \in ComplianceModes |-> IF m = "standard" THEN 365 ELSE 2555]

getMaxRetentionDays(organizationId) == complianceModes["standard"]

\* setRetentionPolicy: throws when retentionDays exceeds the ceiling; the
\* retention_policies table is not written.
setRetentionPolicy(organizationId, resourceType, retentionDays) ==
    IF retentionDays > getMaxRetentionDays(organizationId)
    THEN "Retention period cannot exceed maxDays days"
    ELSE "ok"

\* getRetentionPolicy with the auto-delete flag set on every default.
getRetentionPolicyAutoDeleteAll(organizationId, resourceType) ==
    CASE resourceType = "meeting" ->
             [resourceType |-> "meeting", retentionDays |-> 90, autoDelete |-> TRUE,
              encryptionRequired |-> TRUE, backupRequired |-> FALSE]
      [] resourceType = "action" ->
             [resourceType |-> "action", retentionDays |-> 180, autoDelete |-> TRUE,
              encryptionRequired |-> TRUE, backupRequired |-> TRUE]
      [] resourceType = "analytics" ->
             [resourceType |-> "analytics", retentionDays |-> 365, autoDelete |-> TRUE,
              encryptionRequired |-> FALSE, backupRequired |-> TRUE]
      [] resourceType = "audit_log" ->
             [resourceType |-> "audit_log", retentionDays |-> 2555, autoDelete |-> TRUE,
              encryptionRequired |-> TRUE, backupRequired |-> TRUE]
      [] OTHER -> NoPolicy

\* getRetentionPolicy: the built-in defaults by resource type, else null.
getRetentionPolicy(organizationId, resourceType) ==
    CASE resourceType = "meeting" ->
             [resourceType |-> "meeting", retentionDays |-> 90, autoDelete |-> TRUE,
              encryptionRequired |-> TRUE, backupRequired |-> FALSE]
      [] resourceType = "action" ->
             [resourceType |-> "action", retentionDays |-> 180, autoDelete |-> TRUE,
              encryptionRequired |-> TRUE, backupRequired |-> TRUE]
      [] resourceType = "analytics" ->
             [resourceType |-> "analytics", retentionDays |-> 365, autoDelete |-> FALSE,
              encryptionRequired |-> FALSE, backupRequired |-> TRUE]
      [] resourceType = "audit_log" ->
             [resourceType |-> "audit_log", retentionDays |-> 2555, autoDelete |-> FALSE,
              encryptionRequired |-> TRUE, backupRequired |-> TRUE]
      [] OTHER -> NoPolicy

\* scheduleDataDeletion: days = retentionDays || policy?.retentionDays || 90
\* and the deletion date it computes; the date is printed, not stored.
scheduleDays(organizationId, resourceType, retentionDays) ==
    LET policy == getRetentionPolicy(organizationId, resourceType)
    IN  IF retentionDays # Omitted /\ retentionDays # 0 THEN retentionDays
        ELSE IF policy # NoPolicy /\ policy.retentionDays # 0
        THEN policy.retentionDays
        ELSE DefaultRetentionDays

\* getExpiredRecords reading the rows whose retention_until has passed.
getExpiredRecordsQueried ==
    {r \in meetings : r.retention_until # NullTimestamp /\ r.retention_until < now}

\* getExpiredRecords: no table is queried; an empty list.
getExpiredRecords == {}

\* deleteRecord: prints the record's id; no row is removed, no backup is
\* made and the audit call is commented out.
deleteRecord(record) ==
    [removed |-> {}, backups |-> {}, entries |-> <<>>]

SetRetentionPolicy(organizationId, resourceType, retentionDays) ==
    /\ lastSetPolicy' = [organizationId |-> organizationId,
                         resourceType |-> resourceType,
                         retentionDays |-> retentionDays,
                         outcome |-> setRetentionPolicy(organizationId, resourceType,
                                                        retentionDays)]
    /\ UNCHANGED <<users, access_controls, now, auditLog, aclVars, encVars, gdprVars,
                   exportVars, keyVars, organizations, meetings, scheduleLog, sweepLog,
                   opsVars>>

ScheduleDataDeletion(organizationId, resourceType, resourceId, retentionDays) ==
    /\ Cardinality(scheduleLog) < MaxSchedules
    /\ scheduleLog' = scheduleLog \cup
           {[organizationId |-> organizationId, resourceType |-> resourceType,
             resourceId |-> resourceId, retentionDays |-> retentionDays,
             call |-> Cardinality(scheduleLog) + 1, at |-> now,
             deletionDate |-> now + HoursPerDay
                                      * scheduleDays(organizationId, resourceType,
                                                     retentionDays)]}
    /\ UNCHANGED <<users, access_controls, now, auditLog, aclVars, encVars, gdprVars,
                   exportVars, keyVars, organizations, meetings, lastSetPolicy,
                   sweepLog, opsVars>>

\* executeDataDeletion (the retention sweep): deleteRecord on every record
\* getExpiredRecords returned.
Sweep ==
    LET expiredRecords == getExpiredRecords
        removed == UNION {deleteRecord(r).removed : r \in expiredRecords}
        backups == UNION {deleteRecord(r).backups : r \in expiredRecords}
        wrote == Cardinality({r \in expiredRecords : deleteRecord(r).entries # <<>>})
    IN  /\ Len(sweepLog) < MaxSweeps
        /\ meetings' = meetings \ removed
        /\ sweepLog' = Append(sweepLog,
               [at |-> now, before |-> meetings, processed |-> expiredRecords,
                after |-> meetings \ removed, backups |-> backups,
                entries |-> wrote, outcome |-> "completed"])
        /\ UNCHANGED <<users, access_controls, now, auditLog, aclVars, encVars,
                       gdprVars, exportVars, keyVars, organizations, scheduleLog,
                       lastSetPolicy, opsVars>>

\* A day passes.
NextDay ==
    /\ now + HoursPerDay <= MaxClock * HoursPerDay
    /\ now' = now + HoursPerDay
    /\ UNCHANGED <<users, access_controls, auditLog, aclVars, encVars, gdprVars,
                   exportVars, keyVars, retVars, opsVars>>

InitRetention ==
    /\ Fresh
    /\ ConfiguredStart
    /\ users \in {t \in UserTables : \A u \in UserIds : t[u].role = "user"}
    /\ access_controls = {}
    /\ request = PendingRequest
    /\ audit_logs = {}
    /\ organizations \in OrgTables
    /\ meetings \in {{}} \cup {{r} : r \in SeedMeetings}

NextRetention ==
    \/ \E o \in Orgs, d \in PolicyDays : SetRetentionPolicy(o, "meeting", d)
    \/ \E o \in {"orgA"}, t \in RetentionTypes, id \in MeetingIds,
          d \in ScheduleDays \ {Omitted} : ScheduleDataDeletion(o, t, id, d)
    \/ Sweep
    \/ NextDay

SpecRetention == InitRetention /\ [][NextRetention]_vars

\* Scheduling on its own, with every kind of retentionDays argument.
InitSchedule ==
    /\ Fresh
    /\ ConfiguredStart
    /\ users \in UserTables
    /\ access_controls = {}
    /\ request = PendingRequest
    /\ audit_logs = {}
    /\ organizations \in OrgTables
    /\ meetings \in {{}} \cup {{r} : r \in SeedMeetings}

NextSchedule ==
    \/ \E o \in {"orgA"}, t \in RetentionTypes, id \in MeetingIds, d \in ScheduleDays :
           ScheduleDataDeletion(o, t, id, d)
    \/ NextDay

SpecSchedule == InitSchedule /\ [][NextSchedule]_vars

(***************************************************************************)
(* lib/data-retention.ts: the sweep as the event loop runs it              *)
(*                                                                         *)
(* executeDataDeletion is an async function: it runs to its first await    *)
(* (getExpiredRecords has returned its list by then), and every later      *)
(* resumption runs to the next await (one deleteRecord) or to the end.     *)
(* Other calls run in between.  Nothing in the function takes a lock.      *)
(***************************************************************************)
InFlight == {p \in Sweepers : sweepers[p] # Idle}

\* A caller starts executeDataDeletion: up to `await this.getExpiredRecords()`.
BeginSweep(p) ==
    /\ sweepers[p] = Idle
    /\ Len(sweepLog) + Cardinality(InFlight) < MaxSweeps
    /\ sweepers' = [sweepers EXCEPT ![p] =
           [pc |-> "awaiting", at |-> now, before |-> meetings,
            remaining |-> getExpiredRecords, processed |-> {},
            backups |-> {}, entries |-> 0]]
    /\ UNCHANGED <<users, access_controls, now, auditLog, aclVars, encVars, gdprVars,
                   exportVars, keyVars, retVars, lastPolicy, lastVerify,
                   rateLimitStore, lastSecurity, retry>>

\* The call is resumed: deleteRecord on the next record of its list, or,
\* the list being done, the closing console.log and the return.
ResumeSweep(p) ==
    LET c == sweepers[p]
    IN  /\ c # Idle
        /\ IF c.remaining = {}
           THEN /\ sweepLog' = Append(sweepLog,
                       [at |-> c.at, before |-> c.before, processed |-> c.processed,
                        after |-> meetings, backups |-> c.backups,
                        entries |-> c.entries, outcome |-> "completed"])
                /\ sweepers' = [sweepers EXCEPT ![p] = Idle]
                /\ UNCHANGED meetings
           ELSE \E r \in c.remaining :
                    /\ meetings' = meetings \ deleteRecord(r).removed
                    /\ sweepers' = [sweepers EXCEPT ![p] =
                           [c EXCEPT !.remaining = c.remaining \ {r},
                                     !.processed = c.processed \cup {r},
                                     !.backups = c.backups \cup deleteRecord(r).backups,
                                     !.entries = c.entries
                                         + Len(deleteRecord(r).entries)]]
                    /\ UNCHANGED sweepLog
        /\ UNCHANGED <<users, access_controls, now, auditLog, aclVars, encVars,
                       gdprVars, exportVars, keyVars, organizations, scheduleLog,
                       lastSetPolicy, lastPolicy, lastVerify, rateLimitStore,
                       lastSecurity, retry>>

InitSweepers ==
    /\ Fresh
    /\ ConfiguredStart
    /\ users \in UserTables
    /\ access_controls = {}
    /\ request = PendingRequest
    /\ audit_logs = {}
    /\ organizations \in OrgTables
    /\ meetings \in {{}} \cup {{r} : r \in SeedMeetings}

NextSweepers ==
    \/ \E p \in Sweepers : BeginSweep(p)
    \/ \E p \in Sweepers : ResumeSweep(p)
    \/ NextDay

SpecSweepers == InitSweepers /\ [][NextSweepers]_vars

(***************************************************************************)
(* lib/data-retention.ts: policies                                         *)
(***************************************************************************)
\* Resource types a policy is asked for: the four with a default, and two
\* of the access-control resource types.
PolicyTypes == {"meeting", "action", "analytics", "audit_log", "file", "user"}

GetRetentionPolicy(organizationId, resourceType) ==
    /\ lastPolicy' = [organizationId |-> organizationId,
                      resourceType |-> resourceType,
                      result |-> getRetentionPolicy(organizationId, resourceType)]
    /\ UNCHANGED <<users, access_controls, now, auditLog, aclVars, encVars, gdprVars,
                   exportVars, keyVars, retVars, sweepers, lastVerify, rateLimitStore,
                   lastSecurity, retry>>

InitPolicy ==
    /\ Fresh
    /\ ConfiguredStart
    /\ users \in UserTables
    /\ access_controls = {}
    /\ request = PendingRequest
    /\ audit_logs = {}
    /\ organizations \in OrgTables
    /\ meetings = {}

NextPolicy ==
    \/ \E o \in Orgs, t \in PolicyTypes : GetRetentionPolicy(o, t)
    \/ \E o \in Orgs, d \in PolicyDays : SetRetentionPolicy(o, "meeting", d)

SpecPolicy == InitPolicy /\ [][NextPolicy]_vars

(***************************************************************************)
(* lib/encryption.ts: integrity                                            *)
(*                                                                         *)
(* A digest is a string of hex characters; SHA-256 is scaled down to one   *)
(* byte (two characters), distinct for distinct data.                      *)
(***************************************************************************)
HexChars == {"a", "b", "A"}
Chars == HexChars \cup {"z"}
Strings == UNION {[1..n -> Chars] : n \in 0..MaxDigestLen}

toLowerCase(c) == IF c = "A" THEN "a" ELSE c

\* hashData: createHash('sha256').update(data).digest('hex').
hashData(data) == IF data = 1 THEN <<"a", "b">> ELSE <<"b", "a">>

\* Buffer.from(str, 'hex'): one byte per pair of hex characters, in either
\* case, up to the first pair that is not hex; an odd last character is
\* dropped.
RECURSIVE BufferFromHex(_)
BufferFromHex(str) ==
    IF Len(str) < 2 \/ str[1] \notin HexChars \/ str[2] \notin HexChars
    THEN <<>>
    ELSE <<<<toLowerCase(str[1]), toLowerCase(str[2])>>>>
             \o BufferFromHex(SubSeq(str, 3, Len(str)))

\* crypto.timingSafeEqual: throws a RangeError when the byte lengths differ.
timingSafeEqual(a, b) ==
    IF Len(a) # Len(b) THEN "RangeError"
    ELSE IF a = b THEN "true" ELSE "false"

\* verifyIntegrity
verifyIntegrity(data, hash) ==
    LET computedHash == hashData(data)
    IN  timingSafeEqual(BufferFromHex(computedHash), BufferFromHex(hash))

VerifyIntegrity(data, hash) ==
    /\ lastVerify' = [data |-> data, hash |-> hash,
                      result |-> verifyIntegrity(data, hash)]
    /\ UNCHANGED <<users, access_controls, now, auditLog, aclVars, encVars, gdprVars,
                   exportVars, keyVars, retVars, sweepers, lastPolicy, rateLimitStore,
                   lastSecurity, retry>>

InitIntegrity ==
    /\ Fresh
    /\ ConfiguredStart
    /\ NoRetentionData
    /\ users \in UserTables
    /\ access_controls = {}
    /\ request = PendingRequest
    /\ audit_logs = {}

NextIntegrity == \E d \in Plaintexts, h \in Strings : VerifyIntegrity(d, h)

SpecIntegrity == InitIntegrity /\ [][NextIntegrity]_vars

(***************************************************************************)
(* middleware/security.ts                                                  *)
(*                                                                         *)
(* Date.now() is the clock `now`; windowMs is counted in its units.        *)
(***************************************************************************)
ClientIds == {"ip:1", "ip:2"}
NoRateLimit == [maxRequests |-> -1, windowMs |-> -1]
RateLimits == [maxRequests : 0..MaxRequests, windowMs : 1..MaxWindow]
NoPermissions == "none"
Handlers == {"responds", "throws"}

\* getClientId: the session is a promise that is not awaited, so its user is
\* never seen and the identifier is always the one built from the address.
getClientId(ip) == ip

EntryOf(store, clientId) == {e \in store : e.clientId = clientId}

\* checkRateLimit: expired entries are dropped; a client without an entry
\* gets one with count 1; a full entry rejects; otherwise the count grows.
checkRateLimit(clientId, config, t) ==
    LET cleaned == {e \in rateLimitStore : ~(e.resetTime < t)}
        found == EntryOf(cleaned, clientId)
    IN  IF found = {}
        THEN [allowed |-> TRUE,
              store |-> cleaned \cup {[clientId |-> clientId, count |-> 1,
                                       resetTime |-> t + config.windowMs]}]
        ELSE LET current == CHOOSE e \in found : TRUE
             IN  IF current.count >= config.maxRequests
                 THEN [allowed |-> FALSE, store |-> cleaned]
                 ELSE [allowed |-> TRUE,
                       store |-> (cleaned \ {current})
                                     \cup {[current EXCEPT !.count = @ + 1]}]

\* applySecurity: authentication (401), rate limit (429), permission (401,
\* 403), then the handler; an error of the handler ends in the catch block
\* (500).  logRequest writes an api_access entry for a signed-in caller.
ApplySecurity(ip, session, requireAuth, rateLimit, requirePermissions, handler, audit) ==
    LET clientId == getClientId(ip)
        limited == rateLimit # NoRateLimit
        rl == IF limited THEN checkRateLimit(clientId, rateLimit, now)
              ELSE [allowed |-> TRUE, store |-> rateLimitStore]
        rateChecked == ~(requireAuth /\ session = NoSession) /\ limited
        permitted ==
            requirePermissions = NoPermissions
                \/ checkPermission(session, users[session].organization_id, "user",
                                   requirePermissions, NoResource).hasPermission
        status ==
            IF requireAuth /\ session = NoSession THEN 401
            ELSE IF ~rl.allowed THEN 429
            ELSE IF requirePermissions # NoPermissions /\ session = NoSession THEN 401
            ELSE IF ~permitted THEN 403
            ELSE IF handler = "throws" THEN 500
            ELSE 200
        handled == status \in {200, 500}
        after == IF rateChecked THEN rl.store ELSE rateLimitStore
    IN  /\ rateLimitStore' = after
        /\ lastSecurity' =
               [clientId |-> clientId, maxRequests |-> rateLimit.maxRequests,
                rateChecked |-> rateChecked, allowed |-> rl.allowed,
                storedBefore |-> {e.count : e \in {f \in EntryOf(rateLimitStore, clientId) :
                                                       ~(f.resetTime < now)}},
                stored |-> {e.count : e \in EntryOf(after, clientId)},
                status |-> status, handled |-> handled,
                apiAccessLogged |-> status = 200 /\ audit /\ session # NoSession]
        /\ UNCHANGED <<users, access_controls, now, auditLog, aclVars, encVars, gdprVars,
                       exportVars, keyVars, retVars, sweepers, lastPolicy, lastVerify,
                       retry>>

InitSecurity ==
    /\ Fresh
    /\ ConfiguredStart
    /\ NoRetentionData
    /\ users = [u \in UserIds |-> [role |-> "user", organization_id |-> "orgA"]]
    /\ access_controls = {}
    /\ request = PendingRequest
    /\ audit_logs = {}

NextSecurity ==
    \/ \E ip \in ClientIds, session \in UserIds \cup {NoSession}, requireAuth \in BOOLEAN,
          rateLimit \in RateLimits \cup {NoRateLimit},
          requirePermissions \in {NoPermissions, "delete"},
          handler \in Handlers, audit \in BOOLEAN :
           ApplySecurity(ip, session, requireAuth, rateLimit, requirePermissions,
                         handler, audit)
    \/ Tick

SpecSecurity == InitSecurity /\ [][NextSecurity]_vars

(***************************************************************************)
(* lib/api.ts: withRetry                                                   *)
(*                                                                         *)
(* fn is the environment: each invocation resolves with a value or rejects *)
(* with an error of its choice.                                            *)
(***************************************************************************)
FnValues == {"v1", "v2"}
FnErrors == {"e1", "e2"}
Delays == {0, 1}

RECURSIVE pow2(_)
pow2(i) == IF i = 0 THEN 1 ELSE 2 * pow2(i - 1)

\* The call: `let lastError`, then the loop test for i = 0; a loop that is
\* not entered falls through to `throw lastError!`.
WithRetry(maxRetries, delay) ==
    /\ retry.pc \in {"idle", "returned", "rejected"}
    /\ retry' = [pc |-> IF 0 < maxRetries THEN "calling" ELSE "rejected",
                 maxRetries |-> maxRetries, delay |-> delay, i |-> 0,
                 calls |-> 0, thrown |-> <<>>, lastError |-> Undefined,
                 outcome |-> Undefined, timeout |-> 0]
    /\ UNCHANGED <<users, access_controls, now, auditLog, aclVars, encVars, gdprVars,
                   exportVars, keyVars, retVars, sweepers, lastPolicy, lastVerify,
                   rateLimitStore, lastSecurity>>

\* `return await fn()` when fn resolves.
FnResolves(value) ==
    /\ retry.pc = "calling"
    /\ retry' = [retry EXCEPT !.pc = "returned", !.calls = @ + 1,
                              !.outcome = value]
    /\ UNCHANGED <<users, access_controls, now, auditLog, aclVars, encVars, gdprVars,
                   exportVars, keyVars, retVars, sweepers, lastPolicy, lastVerify,
                   rateLimitStore, lastSecurity>>

\* The catch block: the last attempt rethrows, any other starts the backoff
\* timer of delay * 2^i.
FnRejects(error) ==
    /\ retry.pc = "calling"
    /\ retry' = IF retry.i = retry.maxRetries - 1
                THEN [retry EXCEPT !.pc = "rejected", !.calls = @ + 1,
                                   !.thrown = Append(@, error),
                                   !.lastError = error, !.outcome = error]
                ELSE [retry EXCEPT !.pc = "sleeping", !.calls = @ + 1,
                                   !.thrown = Append(@, error),
                                   !.lastError = error,
                                   !.timeout = retry.delay * pow2(retry.i)]
    /\ UNCHANGED <<users, access_controls, now, auditLog, aclVars, encVars, gdprVars,
                   exportVars, keyVars, retVars, sweepers, lastPolicy, lastVerify,
                   rateLimitStore, lastSecurity>>

\* The timer fires: i++ and the loop test.
TimerFires ==
    /\ retry.pc = "sleeping"
    /\ retry' = IF retry.i + 1 < retry.maxRetries
                THEN [retry EXCEPT !.pc = "calling", !.i = @ + 1]
                ELSE [retry EXCEPT !.pc = "rejected", !.i = @ + 1,
                                   !.outcome = retry.lastError]
    /\ UNCHANGED <<users, access_controls, now, auditLog, aclVars, encVars, gdprVars,
                   exportVars, keyVars, retVars, sweepers, lastPolicy, lastVerify,
                   rateLimitStore, lastSecurity>>

NextRetry ==
    \/ \E m \in 0..MaxRetries, d \in Delays : WithRetry(m, d)
    \/ \E v \in FnValues : FnResolves(v)
    \/ \E e \in FnErrors : FnRejects(e)
    \/ TimerFires

SpecRetry == InitSecurity /\ [][NextRetry]_vars

(***************************************************************************)
(* lib/access-control.ts: getUserPermissions                               *)
(***************************************************************************)
\* The role/resource matrix literal of getUserPermissions, row by row.
listedPermissions ==
    [owner |-> [meeting   |-> {"read", "write", "delete", "admin"},
                action    |-> {"read", "write", "delete", "admin"},
                company   |-> {"read", "write", "delete", "admin"},
                user      |-> {"read", "write", "delete", "admin"},
                analytics |-> {"read", "write", "delete", "admin"},
                file      |-> {"read", "write", "delete", "admin"}],
     admin |-> [meeting   |-> {"read", "write", "delete"},
                action    |-> {"read", "write", "delete"},
                company   |-> {"read", "write", "delete"},
                user      |-> {"read", "write"},
                analytics |-> {"read", "write", "delete"},
                file      |-> {"read", "write", "delete"}],
     user  |-> [meeting   |-> {"read", "write"},
                action    |-> {"read", "write"},
                company   |-> {"read"},
                user      |-> {"read"},
                analytics |-> {"read"},
                file      |-> {"read", "write"}]]

\* rolePermissions[userRole]?.[resourceType] || []
permissionsOfRole(userRole, resourceType) ==
    IF userRole \in DOMAIN listedPermissions
    THEN listedPermissions[userRole][resourceType]
    ELSE {}

\* A listing that knows of read access only.
getUserPermissionsReadOnly(userId, organizationId, resourceType) ==
    permissionsOfRole(getUserRole(userId, organizationId), resourceType)
        \cap {"read"}

\* getUserPermissions: role lookup, then the row of the matrix.
getUserPermissions(userId, organizationId, resourceType) ==
    permissionsOfRole(getUserRole(userId, organizationId), resourceType)

(***************************************************************************)
(* GDPR requests and exports: claims                                       *)
(***************************************************************************)
\* The user holds the permission on the resource type in the organization:
\* a member whose role has it in the permission matrix, or the holder of a
\* live grant of it.
HoldsPermission(userId, organizationId, resourceType, permission) ==
    \/ /\ IsMember(userId, organizationId)
       /\ permission \in PermissionMatrix[users[userId].role][resourceType]
    \/ \E g \in access_controls :
           /\ GrantMatches(g, userId, organizationId, resourceType, permission,
                           NoResource)
           /\ g.isActive
           /\ ~GrantExpired(g, now)

\* C11: a deleteUserData call by a requester who holds delete on `user`
\* returns a pending request with a confirmation code not issued before,
\* a call by one who does not fails and issues nothing, and neither runs a
\* deletion step.
C11_OnlyCreatesRequest ==
    lastDeleteCall # None =>
        /\ lastDeleteCall.stepsAfter = lastDeleteCall.stepsBefore
        /\ IF HoldsPermission(lastDeleteCall.requestedBy, lastDeleteCall.organizationId,
                              "user", "delete")
           THEN /\ lastDeleteCall.outcome = "pending"
                /\ [userId |-> lastDeleteCall.userId, code |-> lastDeleteCall.code]
                       \in issuedCodes
           ELSE /\ lastDeleteCall.outcome # "pending"
                /\ issuedCodes = lastDeleteCall.codesBefore

\* Earlier exports of the user of lastValidate on record.
PriorExports ==
    {e \in audit_logs : e.user_id = lastValidate.userId /\ e.action = "export"}

\* C12: a well-formed export request made less than 24 hours after an
\* export of the same user is on record is refused with the rate-limit
\* error; one made 24 hours or more after every such export is not refused
\* for rate limiting.
C12_ExportRateLimit ==
    (lastValidate # None /\ lastValidate.format \in supportedFormats)
        => /\ (\E e \in PriorExports : lastValidate.at - e.created_at < RateLimitHours)
                  => (~lastValidate.result.valid
                        /\ lastValidate.result.reason = RateLimitReason)
           /\ (\A e \in PriorExports : lastValidate.at - e.created_at >= RateLimitHours)
                  => lastValidate.result.reason # RateLimitReason

\* C13: exportUserData called by a user who holds read on `user` returns
\* the export structure (personal data, organization data, audit trail,
\* export timestamp, requested format) and writes exactly one audit entry,
\* whose action is `export` on resource type `user_data`.
C13_ExportCompletes ==
    (lastExport # None
        /\ HoldsPermission(lastExport.userId, lastExport.organizationId, "user", "read"))
        => /\ lastExport.outcome = "exported"
           /\ lastExport.data # None
           /\ lastExport.data.exportDate = lastExport.at
           /\ lastExport.data.format = lastExport.format
           /\ Len(lastExport.entries) = 1
           /\ lastExport.entries[1].action = "export"
           /\ lastExport.entries[1].resourceType = "user_data"

\* C14: no business operation ends in the exception of its audit call: an
\* exportUserData call ends in its own result (the export, or the refusal
\* of the permission check), never in the error the logging statement threw.
C14_AuditNeverAborts ==
    lastExport # None
        => lastExport.outcome \in {"exported", "Insufficient permissions to export data"}

\* The executeDataDeletion calls, direct or through the route, that ran
\* deletion steps.
StepCalls == {deletionLog[i].call : i \in DOMAIN deletionLog}

IsDeletionAudit(e) == e.resourceType = "user_data" /\ e.resourceId = "deleted"

\* C15: deletion is log-then-act: every executeDataDeletion call that ran
\* a deletion step has its audit entry in the log, and a call whose audit
\* write failed ran no deletion step.
C15_LogThenAct ==
    /\ Cardinality(StepCalls) <= Len(SelectSeq(auditLog, IsDeletionAudit))
    /\ (lastExec # None /\ lastExec.outcome = "TypeError")
           => lastExec.call \notin StepCalls

(***************************************************************************)
(* Key management: claims                                                  *)
(***************************************************************************)
\* C16: a service constructed without MASTER_ENCRYPTION_KEY fails to start,
\* and every data key a process wrapped unwraps to itself under the master
\* key of the process now running.
C16_MissingMasterKeyFatal ==
    /\ ~lastConstruct.configured => lastConstruct.outcome # "constructed"
    /\ \A i \in issued :
           decryptKey(i.encryptedKey, i.organizationId) = i.dataKey

(***************************************************************************)
(* Data retention: claims                                                  *)
(***************************************************************************)
\* C17: setRetentionPolicy fails exactly when the requested days exceed the
\* ceiling of the organization's compliance mode (365 for standard, 2555
\* for gdpr, hipaa and sox).
C17_CeilingByComplianceMode ==
    lastSetPolicy # None
        => (lastSetPolicy.outcome # "ok"
              <=> lastSetPolicy.retentionDays
                      > complianceModes[organizations[lastSetPolicy.organizationId]])

Expired(timestamp, t) == timestamp # NullTimestamp /\ timestamp < t

\* C18: after a sweep no meeting whose retention date had passed when the
\* sweep ran is left in the table, and no resource whose scheduled deletion
\* date had passed is left either.
C18_RetentionLifecycle ==
    \A i \in DOMAIN sweepLog :
        /\ \A r \in sweepLog[i].after : ~Expired(r.retention_until, sweepLog[i].at)
        /\ \A sch \in scheduleLog :
               Expired(sch.deletionDate, sweepLog[i].at)
                   => \A r \in sweepLog[i].after : r.id # sch.resourceId

\* Sweep i + 1 ran right after sweep i on the same dataset.
InARow(i) ==
    /\ i + 1 \in DOMAIN sweepLog
    /\ sweepLog[i + 1].at = sweepLog[i].at
    /\ sweepLog[i + 1].before = sweepLog[i].after

\* C20: a sweep run right after another on the same dataset completes,
\* leaves the dataset as the first left it, handles no record the first
\* handled, makes no backup and writes no audit entry.
C20_SweepIdempotent ==
    \A i \in DOMAIN sweepLog :
        InARow(i)
            => /\ sweepLog[i + 1].outcome = "completed"
               /\ sweepLog[i + 1].after = sweepLog[i].after
               /\ sweepLog[i + 1].processed \cap sweepLog[i].processed = {}
               /\ sweepLog[i + 1].backups = {}
               /\ sweepLog[i + 1].entries = 0

\* Two sweeps ran in a row over a table that holds a meeting past its
\* retention date.
C20_Witness ==
    \E i \in DOMAIN sweepLog :
        /\ InARow(i)
        /\ \E r \in sweepLog[i].before : Expired(r.retention_until, sweepLog[i].at)

\* C21: at most one retention sweep is in flight at a time, so no record
\* is handled by two sweeps.
C21_OneActiveSweeper ==
    /\ Cardinality(InFlight) <= 1
    /\ \A p, q \in InFlight : p # q => sweepers[p].processed \cap sweepers[q].processed = {}

\* The latest scheduleDataDeletion call.
LastSchedule == {sch \in scheduleLog : sch.call = Cardinality(scheduleLog)}

\* C22: the deletion date is the time of the call plus the retentionDays
\* supplied, 0 included, or plus the policy's period for the resource type
\* when none is supplied, and the resource carries that date.
C22_DeletionTimestamp ==
    \A sch \in scheduleLog :
        LET policy == getRetentionPolicy(sch.organizationId, sch.resourceType)
        IN  /\ sch.retentionDays # Omitted
                   => sch.deletionDate = sch.at + HoursPerDay * sch.retentionDays
            /\ (sch.retentionDays = Omitted /\ policy # NoPolicy)
                   => sch.deletionDate = sch.at + HoursPerDay * policy.retentionDays
            /\ sch \in LastSchedule
                   => \A r \in meetings :
                          r.id = sch.resourceId => r.retention_until = sch.deletionDate

\* The default policies: days, auto-delete, encryption, backup.
DefaultPolicyTable ==
    [meeting   |-> <<90, TRUE, TRUE, FALSE>>,
     action    |-> <<180, TRUE, TRUE, TRUE>>,
     analytics |-> <<365, FALSE, FALSE, TRUE>>,
     audit_log |-> <<2555, FALSE, TRUE, TRUE>>]

PolicyIsDefault(policy, resourceType) ==
    /\ policy # NoPolicy
    /\ policy.resourceType = resourceType
    /\ <<policy.retentionDays, policy.autoDelete, policy.encryptionRequired,
         policy.backupRequired>> = DefaultPolicyTable[resourceType]

\* C23 as stated: getRetentionPolicy returns a policy for every resource
\* type, the listed defaults for the four types that have one.
C23_PolicyForEveryType ==
    lastPolicy # None
        => /\ lastPolicy.result # NoPolicy
           /\ lastPolicy.resourceType \in DOMAIN DefaultPolicyTable
                  => PolicyIsDefault(lastPolicy.result, lastPolicy.resourceType)

\* C23, amended: getRetentionPolicy returns the listed default for meeting,
\* action, analytics and audit_log, whatever the organization, and null for
\* every other resource type.
C23_DefaultPolicies ==
    lastPolicy # None
        => IF lastPolicy.resourceType \in DOMAIN DefaultPolicyTable
           THEN PolicyIsDefault(lastPolicy.result, lastPolicy.resourceType)
           ELSE lastPolicy.result = NoPolicy

\* The audit_log policy was asked for and came back with 2555 days and no
\* auto-delete.
C23_Witness ==
    /\ lastPolicy # None
    /\ lastPolicy.resourceType = "audit_log"
    /\ lastPolicy.result # NoPolicy
    /\ lastPolicy.result.retentionDays = 2555
    /\ ~lastPolicy.result.autoDelete

(***************************************************************************)
(* Integrity: claims                                                       *)
(***************************************************************************)
\* C24: verifyIntegrity returns a boolean for every digest, of any length
\* and content, and returns true exactly when the digest is hashData(data).
C24_VerifyIsTotal ==
    lastVerify # None
        => /\ lastVerify.result \in {"true", "false"}
           /\ lastVerify.result = "true" <=> lastVerify.hash = hashData(lastVerify.data)

(***************************************************************************)
(* Self-service deletion: claims                                           *)
(***************************************************************************)
\* C25: an authenticated user of role `user` who POSTs a deletion request
\* for their own data with a reason and a confirmation code is not rejected
\* with 403: the request passes the permission check and is answered 200.
C25_SelfServiceReachable ==
    (/\ lastResponse # None
     /\ lastResponse.method = "POST"
     /\ lastResponse.sessionUser # NoSession
     /\ lastResponse.reason # ""
     /\ lastResponse.confirmationCode # "")
        => lastResponse.status = 200

\* C26: executeDataDeletion leaves state unchanged on error: a call that
\* ended in any error ran none of the three deletion steps.
C26_NoStepsOnError ==
    (lastExec # None /\ lastExec.outcome # "true")
        => \A i \in DOMAIN deletionLog : deletionLog[i].call # lastExec.call

(***************************************************************************)
(* Rate limiting: claims                                                   *)
(***************************************************************************)
\* C27: fixed-window rate limit: a request that checkRateLimit allows is at
\* most the maxRequests-th of its client's window, for every maxRequests
\* >= 0; the count it stores does not exceed maxRequests; and applySecurity
\* does not invoke the handler for a request that checkRateLimit rejected.
C27_FixedWindow ==
    (lastSecurity # None /\ lastSecurity.rateChecked)
        => /\ lastSecurity.allowed
                  => /\ \A n \in lastSecurity.storedBefore :
                            n < lastSecurity.maxRequests
                     /\ \A n \in lastSecurity.stored : n <= lastSecurity.maxRequests
           /\ ~lastSecurity.allowed => ~lastSecurity.handled

(***************************************************************************)
(* withRetry: claims                                                       *)
(***************************************************************************)
\* C28: withRetry invokes fn at most maxRetries times; once it has returned,
\* its value is that of the one successful invocation, which was the last;
\* once it has rejected, all maxRetries invocations failed and the rejection
\* is the error the last of them threw, never a value fn did not throw.
C28_RetryOutcome ==
    retry.pc # "idle"
        => /\ retry.calls <= retry.maxRetries
           /\ retry.pc = "returned"
                  => retry.outcome \in FnValues /\ Len(retry.thrown) = retry.calls - 1
           /\ retry.pc = "rejected"
                  => /\ Len(retry.thrown) = retry.maxRetries
                     /\ retry.calls = retry.maxRetries
                     /\ retry.thrown # <<>>
                     /\ retry.outcome = retry.thrown[Len(retry.thrown)]

(***************************************************************************)
(* Retention periods in use: claims                                        *)
(***************************************************************************)
\* scheduleAuditTrailDeletion: the period it passes to scheduleDataDeletion.
AuditTrailRetentionDays == 2555

\* C29: every retention period the service itself uses is one that
\* setRetentionPolicy would accept for the same organization: each default
\* policy returned by getRetentionPolicy, and the period the GDPR service
\* schedules audit-trail deletion with.
C29_DefaultsWithinCeiling ==
    /\ (lastPolicy # None /\ lastPolicy.result # NoPolicy)
           => setRetentionPolicy(lastPolicy.organizationId, lastPolicy.resourceType,
                                 lastPolicy.result.retentionDays) = "ok"
    /\ \A o \in Orgs :
           setRetentionPolicy(o, "audit_log", AuditTrailRetentionDays) = "ok"

(***************************************************************************)
(* The two role matrices: claims                                           *)
(***************************************************************************)
UnknownRole == "guest"

\* C30: the two copies of the role matrix agree: checkPermission returns
\* hasPermission = true exactly when the permission is in the list that
\* getUserPermissions returns for the same user, organization and resource
\* type, and a role outside the matrix has no permission in either copy.
C30_MatricesAgree ==
    /\ lastCheck # None
           => (lastCheck.result.hasPermission
                  <=> lastCheck.requiredPermission
                          \in getUserPermissions(lastCheck.userId,
                                                 lastCheck.organizationId,
                                                 lastCheck.resourceType))
    /\ \A r \in Roles \cup {UnknownRole}, t \in ResourceType, p \in Permission :
           evaluatePermission(r, t, p) <=> p \in permissionsOfRole(r, t)
    /\ \A t \in ResourceType, p \in Permission :
           ~evaluatePermission(UnknownRole, t, p)

\* A check that was granted, for a permission that the list contains too.
C30_Witness ==
    /\ lastCheck # None
    /\ lastCheck.resourceType = "file"
    /\ lastCheck.requiredPermission = "write"
    /\ lastCheck.result.hasPermission
    /\ getUserPermissions(lastCheck.userId, lastCheck.organizationId,
                          lastCheck.resourceType) = {"read", "write"}

====
